---- MODULE Spec2Model ----
(***************************************************************************)
(* Dispatch core of the notification service                               *)
(* (src/src/notification/notification.service.ts) as a state machine.      *)
(*                                                                         *)
(* The store, the dispatch queue, the preference gate, the device          *)
(* directory and the clock are collaborators: the store is the sequence    *)
(* notifs (a record's id is its index), the queue is the bag of submitted  *)
(* jobs that have not finished, and what the gate, the directory and the   *)
(* channel providers answer is chosen nondeterministically per call.       *)
(***************************************************************************)
EXTENDS Integers, Sequences, FiniteSets, Bags, TLC

VARIABLES
    now,        \* the wall clock (Date.now() / new Date()), in milliseconds
    notifs,     \* notificationRepo: sequence of records, id = index
    queue,      \* notificationQueue: bag of jobs submitted and not yet finished
    rl,         \* userRateLimits: userId -> [count, resetAt], or NoLimit
    contacted,  \* ids for which a channel provider has been called (history)
    sweptAt,    \* the clock of the latest sweep, NoTime before the first (history)
    last,       \* the last operation: its name, subject, result
    workers,    \* queue workers inside processNotification: what each holds
    sweepers,   \* schedulers inside processScheduledNotifications: what each holds
    hist,       \* per record: the jobs ever submitted for it, those of them the
                \* sweep submitted, the retryNotification calls that returned
                \* true (history)
    observed    \* per user: the calls the limiter admitted at the instants of
                \* the observed interval (history)

vars == <<now, notifs, queue, rl, contacted, sweptAt, last, workers, sweepers, hist,
          observed>>

(***************************************************************************)
(* Bounds of the model                                                     *)
(***************************************************************************)
MaxNotifs == 1
MaxQueue == 2
MaxClock == 1
MaxDevices == 3
MaxRetryCount == 1
MaxBulk == 2
MaxCalls == 1
RLMaxNotifs == 1
RLMaxClock == 1
WSMaxNotifs == 2
CCMaxNotifs == 1
MaxRetries == 1
SWMaxNotifs == 2
SBExtra == 1
LVMaxRetryCount == 3
BKMaxNotifs == 2
SLMaxClock == 1

(***************************************************************************)
(* Program constants                                                       *)
(***************************************************************************)
RATE_LIMIT_WINDOW == 60 * 1000
RATE_LIMIT_MAX == 100
SWEEP_BATCH == 100
JOB_ATTEMPTS == 3
JOB_BACKOFF_DELAY == 1000

Users == {"u1", "u2"}
Workspaces == {"w1", "w2"}
Types == {"push", "email", "sms", "in_app"}
Priorities == {"urgent", "high", "normal", "low", "none"}
Statuses == {"PENDING", "QUEUED", "SENT", "DELIVERED", "READ", "FAILED"}

NoTime == -1      \* an absent (undefined / null) timestamp
NoMsg == ""       \* an absent errorMessage
NoLimit == [count |-> 0, resetAt |-> NoTime]   \* no entry in userRateLimits

Ids == 1..MaxNotifs

(***************************************************************************)
(* Rate limiter: checkRateLimit(userId)                                    *)
(***************************************************************************)
\* a mutant of checkRateLimit: the full window admits one call more
checkRateLimit_OffByOne(lim, u, t) ==
    IF lim[u] = NoLimit \/ lim[u].resetAt < t
    THEN [ok |-> TRUE,
          lim |-> [lim EXCEPT ![u] = [count |-> 1, resetAt |-> t + RATE_LIMIT_WINDOW]]]
    ELSE IF lim[u].count > RATE_LIMIT_MAX
    THEN [ok |-> FALSE, lim |-> lim]
    ELSE [ok |-> TRUE, lim |-> [lim EXCEPT ![u].count = @ + 1]]

\* a mutant of checkRateLimit: the window is over at resetAt, not after it
checkRateLimit_ResetAtBoundary(lim, u, t) ==
    IF lim[u] = NoLimit \/ lim[u].resetAt <= t
    THEN [ok |-> TRUE,
          lim |-> [lim EXCEPT ![u] = [count |-> 1, resetAt |-> t + RATE_LIMIT_WINDOW]]]
    ELSE IF lim[u].count >= RATE_LIMIT_MAX
    THEN [ok |-> FALSE, lim |-> lim]
    ELSE [ok |-> TRUE, lim |-> [lim EXCEPT ![u].count = @ + 1]]

\* the result of checkRateLimit(u) at time t: what it returns (ok) and the
\* map it leaves (lim)
checkRateLimit(lim, u, t) ==
    IF lim[u] = NoLimit \/ lim[u].resetAt < t
    THEN [ok |-> TRUE,
          lim |-> [lim EXCEPT ![u] = [count |-> 1, resetAt |-> t + RATE_LIMIT_WINDOW]]]
    ELSE IF lim[u].count >= RATE_LIMIT_MAX
    THEN [ok |-> FALSE, lim |-> lim]
    ELSE [ok |-> TRUE, lim |-> [lim EXCEPT ![u].count = @ + 1]]

RateAdmit(lim, u, t) == checkRateLimit(lim, u, t).ok

RateNext(lim, u, t) == checkRateLimit(lim, u, t).lim

\* the number of calls for user u that the limiter admitted at time t, given
\* the map before them (lim) and after them (lim2)
Admitted(lim, lim2, u, t) ==
    IF lim2[u] = lim[u] THEN 0
    ELSE IF lim[u] = NoLimit \/ lim[u].resetAt < t THEN lim2[u].count
    ELSE lim2[u].count - lim[u].count

\* the observed interval: the 60 seconds from ObsFrom on, which begin at the
\* last instant of a rate window that was opened at ObsFrom - RATE_LIMIT_WINDOW
ObsFrom == 2 * RATE_LIMIT_WINDOW - 1

Obs(t) == ObsFrom <= t /\ t < ObsFrom + RATE_LIMIT_WINDOW

\* the history observed after calls at time t that took the map from lim to lim2
ObservedNext(lim, lim2, t) ==
    [u \in Users |-> observed[u] + IF Obs(t) THEN Admitted(lim, lim2, u, t) ELSE 0]

(***************************************************************************)
(* Queue jobs                                                              *)
(***************************************************************************)
getPriorityValue(p) ==
    CASE p = "urgent" -> 1
      [] p = "high" -> 2
      [] p = "normal" -> 3
      [] p = "low" -> 4
      [] OTHER -> 3

\* the job send, sweep and retryNotification submit; made counts the attempts
\* the queue has already delivered
JobWithPolicy(id, p) ==
    [id |-> id, priority |-> getPriorityValue(p), attempts |-> JOB_ATTEMPTS,
     backoff |-> JOB_BACKOFF_DELAY, made |-> 0]

\* the job sendBulk submits: no options given (priority, attempts, backoff unset)
JobBare(id) ==
    [id |-> id, priority |-> 0, attempts |-> 0, backoff |-> 0, made |-> 0]

QueueLen == BagCardinality(queue)

\* the number of jobs of bag q that are for record id
JobCount(q, id) ==
    BagCardinality([j \in {x \in BagToSet(q) : x.id = id} |-> CopiesIn(j, q)])

(***************************************************************************)
(* Records                                                                 *)
(***************************************************************************)
\* a mutant of NewRecord: every record starts PENDING
NewRecord_AlwaysPending(dto) ==
    [userId |-> dto.userId, workspaceId |-> dto.workspaceId, type |-> dto.type,
     priority |-> dto.priority, data |-> dto.data,
     status |-> "PENDING",
     scheduledAt |-> dto.scheduledAt, expiresAt |-> dto.expiresAt,
     sentAt |-> NoTime, readAt |-> NoTime, deliveredAt |-> NoTime,
     errorMessage |-> NoMsg, retryCount |-> 0]

\* notificationRepo.create in send
NewRecord(dto) ==
    [userId |-> dto.userId, workspaceId |-> dto.workspaceId, type |-> dto.type,
     priority |-> dto.priority, data |-> dto.data,
     status |-> IF dto.scheduledAt # NoTime THEN "PENDING" ELSE "QUEUED",
     scheduledAt |-> dto.scheduledAt, expiresAt |-> dto.expiresAt,
     sentAt |-> NoTime, readAt |-> NoTime, deliveredAt |-> NoTime,
     errorMessage |-> NoMsg, retryCount |-> 0]

\* a mutant of NewBulkRecord: the record is created PENDING
NewBulkRecord_Pending(u, dto) ==
    [userId |-> u, workspaceId |-> dto.workspaceId, type |-> dto.type,
     priority |-> dto.priority, data |-> dto.data,
     status |-> "PENDING",
     scheduledAt |-> NoTime, expiresAt |-> NoTime,
     sentAt |-> NoTime, readAt |-> NoTime, deliveredAt |-> NoTime,
     errorMessage |-> NoMsg, retryCount |-> 0]

\* notificationRepo.create in sendBulk: no scheduledAt, no expiresAt
NewBulkRecord(u, dto) ==
    [userId |-> u, workspaceId |-> dto.workspaceId, type |-> dto.type,
     priority |-> dto.priority, data |-> dto.data,
     status |-> "QUEUED",
     scheduledAt |-> NoTime, expiresAt |-> NoTime,
     sentAt |-> NoTime, readAt |-> NoTime, deliveredAt |-> NoTime,
     errorMessage |-> NoMsg, retryCount |-> 0]

\* what the last operation was and what its caller saw: op the operation, id the
\* record it was about (0: none), user the user it was called for ("": none),
\* ret what it returned (send returns null on both admission failures; the
\* suffix is the reason it logged), n a returned count, called whether it
\* called a channel provider
Result(op, id, user, ret, n, called) ==
    [op |-> op, id |-> id, user |-> user, ret |-> ret, n |-> n, called |-> called]

\* the queue's workers, and a worker that is not inside processNotification:
\* job is the job it holds, snap the record as findOne returned it, m the
\* record in its memory, each <<>> or a one-element sequence; raised whether
\* its call raises, called whether it has called a channel provider. A
\* worker that has finished keeps what it last held until its next job.
Workers == {"a", "b"}

Idle == [pc |-> "idle", job |-> <<>>, snap |-> <<>>, m |-> <<>>,
         raised |-> FALSE, called |-> FALSE]

\* the schedulers that run the sweep, and one that is not inside it: t is the
\* now the call took at its start, snap the records its find returned that
\* the loop has not finished, by id, cur the id of the record it has saved
\* QUEUED and not yet submitted (0: none)
Sweepers == {"x", "y"}

Resting == [pc |-> "rest", t |-> NoTime, snap |-> <<>>, cur |-> 0]

\* the history of a record for which no job was submitted yet
NoHist == [jobs |-> 0, swept |-> 0, retried |-> 0]

(***************************************************************************)
(* Initial state: an empty store, an empty queue, no rate-limit entries,   *)
(* no worker at work                                                       *)
(***************************************************************************)
Init ==
    /\ now = 0
    /\ notifs = <<>>
    /\ queue = EmptyBag
    /\ rl = [u \in Users |-> NoLimit]
    /\ contacted = {}
    /\ sweptAt = NoTime
    /\ last = Result("init", 0, "", "none", 0, FALSE)
    /\ workers = [w \in Workers |-> Idle]
    /\ sweepers = [s \in Sweepers |-> Resting]
    /\ hist = <<>>
    /\ observed = [u \in Users |-> 0]

(***************************************************************************)
(* The clock                                                               *)
(***************************************************************************)
\* the clock moves on to a later one of the instants the model looks at
Tick(instants) ==
    /\ \E t \in instants : t > now /\ now' = t
    /\ last' = Result("tick", 0, "", "none", 0, FALSE)
    /\ UNCHANGED <<notifs, queue, rl, contacted, sweptAt, workers, sweepers, hist, observed>>

(***************************************************************************)
(* send(dto): canSend is the preference gate's answer                      *)
(***************************************************************************)
\* a mutant of Admission: the preference gate's answer is ignored
Admission_IgnoresGate(lim, u, canSend, t) ==
    IF ~RateAdmit(lim, u, t) THEN "null_rate_limited" ELSE "record"

\* the admission checks of send, by what send then returns: null on a
\* rejection by the limiter, null on a denial by the gate (never consulted
\* after a rejection), the record otherwise
Admission(lim, u, canSend, t) ==
    IF ~RateAdmit(lim, u, t) THEN "null_rate_limited"
    ELSE IF ~canSend THEN "null_blocked"
    ELSE "record"

Send(dto, canSend, maxNotifs, maxCalls) ==
    LET id == Len(notifs) + 1
        ret == Admission(rl, dto.userId, canSend, now)
    IN /\ RateNext(rl, dto.userId, now)[dto.userId].count <= maxCalls[dto.userId]
       /\ rl' = RateNext(rl, dto.userId, now)
       /\ observed' = ObservedNext(rl, RateNext(rl, dto.userId, now), now)
       /\ IF ret # "record"
          THEN \* return null
               /\ last' = Result("send", 0, dto.userId, ret, 0, FALSE)
               /\ UNCHANGED <<now, notifs, queue, contacted, sweptAt, workers, sweepers,
                              hist>>
          ELSE \* create, save, and queue unless scheduled
               /\ Len(notifs) < maxNotifs
               /\ dto.scheduledAt = NoTime => QueueLen < MaxQueue
               /\ notifs' = Append(notifs, NewRecord(dto))
               /\ queue' = IF dto.scheduledAt = NoTime
                           THEN queue (+) SetToBag({JobWithPolicy(id, dto.priority)})
                           ELSE queue
               /\ hist' = Append(hist, [NoHist EXCEPT !.jobs =
                                           IF dto.scheduledAt = NoTime THEN 1 ELSE 0])
               /\ last' = Result("send", id, dto.userId, ret, 0, FALSE)
               /\ UNCHANGED <<now, contacted, sweptAt, workers, sweepers>>

(***************************************************************************)
(* sendBulk(dto): the callbacks of userIds.map run checkRateLimit in list  *)
(* order; prefs[i] is the preference gate's answer for userIds[i]          *)
(***************************************************************************)
RECURSIVE BulkAdmit(_, _, _, _)
BulkAdmit(lim, us, prefs, t) ==
    IF us = <<>>
    THEN [lim |-> lim, ok |-> <<>>]
    ELSE LET u == Head(us)
             rest == BulkAdmit(RateNext(lim, u, t), Tail(us), Tail(prefs), t)
         IN [lim |-> rest.lim,
             ok |-> IF RateAdmit(lim, u, t) /\ Head(prefs)
                    THEN <<u>> \o rest.ok
                    ELSE rest.ok]

SendBulk(dto, prefs, maxNotifs, maxCalls) ==
    LET res == BulkAdmit(rl, dto.userIds, prefs, now)
        valid == [i \in 1..Len(res.ok) |-> NewBulkRecord(res.ok[i], dto)]
        jobs == {JobBare(Len(notifs) + i) : i \in 1..Len(valid)}
    IN /\ \A u \in Users : res.lim[u].count <= maxCalls[u]
       /\ Len(notifs) + Len(valid) <= maxNotifs
       /\ QueueLen + Len(valid) <= MaxQueue
       /\ rl' = res.lim
       /\ notifs' = notifs \o valid
       /\ queue' = queue (+) SetToBag(jobs)
       /\ hist' = hist \o [i \in 1..Len(valid) |-> [NoHist EXCEPT !.jobs = 1]]
       /\ last' = Result("sendBulk", 0, "", "count", Len(valid), FALSE)
       /\ observed' = ObservedNext(rl, res.lim, now)
       /\ UNCHANGED <<now, contacted, sweptAt, workers, sweepers>>

(***************************************************************************)
(* markAsRead(userId, ids), markAllAsRead(userId, workspaceId?)            *)
(***************************************************************************)
NoWs == "none"

MarkAsRead(u, ids) ==
    /\ notifs' = [i \in DOMAIN notifs |->
                    IF i \in ids /\ notifs[i].userId = u
                    THEN [notifs[i] EXCEPT !.status = "READ", !.readAt = now]
                    ELSE notifs[i]]
    /\ last' = Result("markAsRead", 0, u, "void", 0, FALSE)
    /\ UNCHANGED <<now, queue, rl, contacted, sweptAt, workers, sweepers, hist, observed>>

\* a mutant of MarkAllAsRead: the workspace given is not looked at
MarkAllAsRead_IgnoresWorkspace(u, w) ==
    /\ notifs' = [i \in DOMAIN notifs |->
                    IF notifs[i].userId = u /\ notifs[i].status # "READ"
                    THEN [notifs[i] EXCEPT !.status = "READ", !.readAt = now]
                    ELSE notifs[i]]
    /\ last' = Result("markAllAsRead", 0, u, "void", 0, FALSE)
    /\ UNCHANGED <<now, queue, rl, contacted, sweptAt, workers, sweepers, hist, observed>>

MarkAllAsRead(u, w) ==
    /\ notifs' = [i \in DOMAIN notifs |->
                    IF /\ notifs[i].userId = u
                       /\ notifs[i].status # "READ"
                       /\ (w # NoWs => notifs[i].workspaceId = w)
                    THEN [notifs[i] EXCEPT !.status = "READ", !.readAt = now]
                    ELSE notifs[i]]
    /\ last' = Result("markAllAsRead", 0, u, "void", 0, FALSE)
    /\ UNCHANGED <<now, queue, rl, contacted, sweptAt, workers, sweepers, hist, observed>>

(***************************************************************************)
(* processScheduledNotifications(): the sweep                              *)
(***************************************************************************)
Expired(r, t) == r.expiresAt # NoTime /\ r.expiresAt < t

\* a mutant of Due: every PENDING record is due, whatever its scheduledAt
Due_IgnoresSchedule(t) == {i \in DOMAIN notifs : notifs[i].status = "PENDING"}

\* a mutant of Due: the sweep also selects FAILED records
Due_AlsoFailed(t) == {i \in DOMAIN notifs :
                        /\ notifs[i].status \in {"PENDING", "FAILED"}
                        /\ notifs[i].scheduledAt # NoTime
                        /\ notifs[i].scheduledAt <= t}

\* a mutant of Due: the sweep also selects QUEUED records
Due_AlsoQueued(t) == {i \in DOMAIN notifs :
                        /\ notifs[i].status \in {"PENDING", "QUEUED"}
                        /\ notifs[i].scheduledAt # NoTime
                        /\ notifs[i].scheduledAt <= t}

\* the where clause of the sweep's find
Due(t) == {i \in DOMAIN notifs :
             /\ notifs[i].status = "PENDING"
             /\ notifs[i].scheduledAt # NoTime
             /\ notifs[i].scheduledAt <= t}

\* the subsets of the set S of numbers that have k elements
RECURSIVE KSubsets(_, _)
KSubsets(S, k) ==
    IF k = 0 THEN {{}}
    ELSE UNION {{T \cup {x} : T \in KSubsets({y \in S : y > x}, k - 1)} : x \in S}

\* a mutant of Batches: the find has no take, it returns every due record
Batches_NoTake(t) == {Due(t)}

\* find({where, take: 100}): any SWEEP_BATCH of the due records, all when
\* fewer (the sets that leave out all but SWEEP_BATCH of them)
Batches(t) ==
    IF Cardinality(Due(t)) <= SWEEP_BATCH
    THEN {Due(t)}
    ELSE {Due(t) \ x : x \in KSubsets(Due(t), Cardinality(Due(t)) - SWEEP_BATCH)}

\* a mutant of SweepRecord: the sweep does not look at expiresAt
SweepRecord_NoExpiry(r, t) == [r EXCEPT !.status = "QUEUED"]

\* what the loop body saves for one record of the batch
SweepRecord(r, t) ==
    IF Expired(r, t)
    THEN [r EXCEPT !.status = "FAILED",
                   !.errorMessage = "Notification expired before delivery"]
    ELSE [r EXCEPT !.status = "QUEUED"]

Sweep(b) ==
    LET promoted == {i \in b : SweepRecord(notifs[i], now).status = "QUEUED"}
    IN /\ b \in Batches(now)
       /\ QueueLen + Cardinality(promoted) <= MaxQueue
       /\ notifs' = [i \in DOMAIN notifs |->
                       IF i \in b THEN SweepRecord(notifs[i], now) ELSE notifs[i]]
       /\ queue' = queue (+)
                    SetToBag({JobWithPolicy(i, notifs[i].priority) : i \in promoted})
       /\ hist' = [i \in DOMAIN hist |->
                     IF i \in promoted
                     THEN [hist[i] EXCEPT !.jobs = @ + 1, !.swept = @ + 1]
                     ELSE hist[i]]
       /\ sweptAt' = now
       /\ last' = Result("sweep", 0, "", "void", Cardinality(promoted), FALSE)
       /\ UNCHANGED <<now, rl, contacted, workers, sweepers, observed>>

(***************************************************************************)
(* processScheduledNotifications() step by step, as each of several        *)
(* schedulers runs it: the find with the now taken at the start (SFind),   *)
(* and for each record found the save of the record in the scheduler's     *)
(* memory (SSave) and, when it was saved QUEUED, the queue.add (SAdd).     *)
(* The find returns the records in no stated order, so the loop takes any  *)
(* record it has not handled yet.                                          *)
(***************************************************************************)
\* what a scheduler holds after finishing one record of its batch
Handled(sw, i) ==
    LET rest == DOMAIN sw.snap \ {i}
    IN [pc |-> IF rest = {} THEN "rest" ELSE "loop", t |-> sw.t,
        snap |-> [k \in rest |-> sw.snap[k]], cur |-> 0]

SFind(s, b) ==
    /\ sweepers[s].pc = "rest"
    /\ b \in Batches(now)
    /\ sweepers' = [sweepers EXCEPT ![s] =
                      IF b = {} THEN Resting
                      ELSE [pc |-> "loop", t |-> now,
                            snap |-> [i \in b |-> notifs[i]], cur |-> 0]]
    /\ sweptAt' = now
    /\ last' = Result("find", 0, "", "none", Cardinality(b), FALSE)
    /\ UNCHANGED <<now, notifs, queue, rl, contacted, workers, hist, observed>>

\* a mutant of SSave: the record is saved, and then submitted, only when the
\* store still holds it PENDING
SSave_OnlyIfPending(s, i) ==
    LET sw == sweepers[s]
        rec == SweepRecord(sw.snap[i], sw.t)
        go == notifs[i].status = "PENDING"
    IN /\ sw.pc = "loop"
       /\ i \in DOMAIN sw.snap
       /\ notifs' = IF go THEN [notifs EXCEPT ![i] = rec] ELSE notifs
       /\ sweepers' = [sweepers EXCEPT ![s] =
                         IF go /\ rec.status = "QUEUED"
                         THEN [sw EXCEPT !.pc = "add", !.cur = i]
                         ELSE Handled(sw, i)]
       /\ last' = Result("sweepSave", i, "", "none", 0, FALSE)
       /\ UNCHANGED <<now, queue, rl, contacted, sweptAt, workers, hist, observed>>

SSave(s, i) ==
    LET sw == sweepers[s]
        rec == SweepRecord(sw.snap[i], sw.t)
    IN /\ sw.pc = "loop"
       /\ i \in DOMAIN sw.snap
       /\ notifs' = [notifs EXCEPT ![i] = rec]
       /\ sweepers' = [sweepers EXCEPT ![s] =
                         IF rec.status = "QUEUED"
                         THEN [sw EXCEPT !.pc = "add", !.cur = i]
                         ELSE Handled(sw, i)]
       /\ last' = Result("sweepSave", i, "", "none", 0, FALSE)
       /\ UNCHANGED <<now, queue, rl, contacted, sweptAt, workers, hist, observed>>

SAdd(s) ==
    LET sw == sweepers[s]
        i == sw.cur
    IN /\ sw.pc = "add"
       /\ QueueLen < MaxQueue
       /\ queue' = queue (+) SetToBag({JobWithPolicy(i, sw.snap[i].priority)})
       /\ hist' = [hist EXCEPT ![i].jobs = @ + 1, ![i].swept = @ + 1]
       /\ sweepers' = [sweepers EXCEPT ![s] = Handled(sw, i)]
       /\ last' = Result("sweepAdd", i, "", "none", 0, FALSE)
       /\ UNCHANGED <<now, notifs, rl, contacted, sweptAt, workers, observed>>

(***************************************************************************)
(* retryNotification(id)                                                   *)
(***************************************************************************)
\* a mutant of RetryNotification: the status is not looked at
RetryNotification_AnyStatus(id) ==
    IF id \in DOMAIN notifs
    THEN /\ QueueLen < MaxQueue
         /\ hist[id].retried < MaxRetries
         /\ notifs' = [notifs EXCEPT ![id].status = "QUEUED",
                                      ![id].errorMessage = NoMsg]
         /\ queue' = queue (+) SetToBag({JobWithPolicy(id, notifs[id].priority)})
         /\ hist' = [hist EXCEPT ![id].jobs = @ + 1, ![id].retried = @ + 1]
         /\ last' = Result("retry", id, "", "true", 0, FALSE)
         /\ UNCHANGED <<now, rl, contacted, sweptAt, workers, sweepers, observed>>
    ELSE /\ last' = Result("retry", id, "", "false", 0, FALSE)
         /\ UNCHANGED <<now, notifs, queue, rl, contacted, sweptAt, workers, sweepers,
                        hist, observed>>

RetryNotification(id) ==
    IF id \in DOMAIN notifs /\ notifs[id].status = "FAILED"
    THEN /\ QueueLen < MaxQueue
         /\ hist[id].retried < MaxRetries
         /\ notifs' = [notifs EXCEPT ![id].status = "QUEUED",
                                      ![id].errorMessage = NoMsg]
         /\ queue' = queue (+) SetToBag({JobWithPolicy(id, notifs[id].priority)})
         /\ hist' = [hist EXCEPT ![id].jobs = @ + 1, ![id].retried = @ + 1]
         /\ last' = Result("retry", id, "", "true", 0, FALSE)
         /\ UNCHANGED <<now, rl, contacted, sweptAt, workers, sweepers, observed>>
    ELSE /\ last' = Result("retry", id, "", "false", 0, FALSE)
         /\ UNCHANGED <<now, notifs, queue, rl, contacted, sweptAt, workers, sweepers,
                        hist, observed>>

(***************************************************************************)
(* processNotification(id), run by a queue worker for a job of the queue   *)
(* (every job names a saved record and records are never deleted, so the   *)
(* "not found" return is never taken)                                      *)
(*                                                                         *)
(* out is what the collaborators answer during the call:                   *)
(*   n      the number of devices the device directory returns (push)      *)
(*   s      the number of destinations the provider reports delivered      *)
(*   err    the error the provider reports when it fails (it may be empty) *)
(*   fault  "none", or "lookup": getUserDevices raises (push)              *)
(* The providers of this repository catch every error of their transport   *)
(* and answer with a structured failure, and the store's calls succeed.    *)
(***************************************************************************)
PartialMsg(k) == "Partial delivery: " \o ToString(k) \o " failed"

PushErrors == {"Firebase not initialized", "push provider error"}
EmailErrors == {"Email transporter not initialized", "email provider error"}
SmsErrors == {"Twilio client not initialized", "No sender phone number configured",
              "sms provider error"}

\* e || d on error strings: the empty (or absent) one is falsy
OrElse(e, d) == IF e # NoMsg THEN e ELSE d

\* a mutant of SendPushResult: a partial delivery counts as a failure
SendPushResult_PartialFails(r, out) ==
    IF out.n = 0
    THEN [r EXCEPT !.status = "FAILED", !.errorMessage = "No registered devices"]
    ELSE IF out.s = out.n
    THEN [r EXCEPT !.status = "SENT"]
    ELSE [r EXCEPT !.status = "FAILED",
                   !.errorMessage = IF out.s > 0 THEN PartialMsg(out.n - out.s)
                                    ELSE OrElse(out.err, "All devices failed")]

\* sendPushNotification
SendPushResult(r, out) ==
    IF out.n = 0
    THEN [r EXCEPT !.status = "FAILED", !.errorMessage = "No registered devices"]
    ELSE IF out.s = out.n
    THEN [r EXCEPT !.status = "SENT"]
    ELSE IF out.s > 0
    THEN [r EXCEPT !.status = "SENT", !.errorMessage = PartialMsg(out.n - out.s)]
    ELSE [r EXCEPT !.status = "FAILED",
                   !.errorMessage = OrElse(out.err, "All devices failed")]

\* sendEmailNotification
SendEmailResult(r, out) ==
    IF "email" \notin r.data
    THEN [r EXCEPT !.status = "FAILED", !.errorMessage = "No email address provided"]
    ELSE IF out.s > 0
    THEN [r EXCEPT !.status = "SENT"]
    ELSE [r EXCEPT !.status = "FAILED",
                   !.errorMessage = OrElse(out.err, "Email sending failed")]

\* a mutant of SendSmsResult: the provider's error is stored as it comes, with
\* no default for an empty one
SendSmsResult_NoDefault(r, out) ==
    IF "phone" \notin r.data
    THEN [r EXCEPT !.status = "FAILED", !.errorMessage = "No phone number provided"]
    ELSE IF out.s > 0
    THEN [r EXCEPT !.status = "SENT"]
    ELSE [r EXCEPT !.status = "FAILED", !.errorMessage = out.err]

\* sendSmsNotification
SendSmsResult(r, out) ==
    IF "phone" \notin r.data
    THEN [r EXCEPT !.status = "FAILED", !.errorMessage = "No phone number provided"]
    ELSE IF out.s > 0
    THEN [r EXCEPT !.status = "SENT"]
    ELSE [r EXCEPT !.status = "FAILED",
                   !.errorMessage = OrElse(out.err, "SMS sending failed")]

\* a mutant of Deliver: an in-app record is marked SENT, like the other types
Deliver_InAppSent(r, out, t) ==
    CASE r.type = "push" -> SendPushResult(r, out)
      [] r.type = "email" -> SendEmailResult(r, out)
      [] r.type = "sms" -> SendSmsResult(r, out)
      [] OTHER -> [r EXCEPT !.status = "SENT", !.deliveredAt = t]

\* the switch on notification.type
Deliver(r, out, t) ==
    CASE r.type = "push" -> SendPushResult(r, out)
      [] r.type = "email" -> SendEmailResult(r, out)
      [] r.type = "sms" -> SendSmsResult(r, out)
      [] OTHER -> [r EXCEPT !.status = "DELIVERED", !.deliveredAt = t]

\* whether the switch calls a channel provider
CallsProvider(r, out) ==
    CASE r.type = "push" -> out.n > 0
      [] r.type = "email" -> "email" \in r.data
      [] r.type = "sms" -> "phone" \in r.data
      [] OTHER -> FALSE

\* a mutant of Caught: the catch block does not count the attempt
Caught_NoCount(m, msg) ==
    [m EXCEPT !.status = "FAILED", !.errorMessage = msg]

\* a mutant of Caught: the catch block leaves the status as it is
Caught_KeepsStatus(m, msg) ==
    [m EXCEPT !.errorMessage = msg, !.retryCount = @ + 1]

\* the catch block: what it saves for the in-memory record m
Caught(m, msg) ==
    [m EXCEPT !.status = "FAILED", !.errorMessage = msg, !.retryCount = @ + 1]

\* a mutant of ProcessRecord: sentAt is stamped only when the switch did not
\* fail the record
ProcessRecord_NoStampOnFailure(r, out, t) ==
    IF Expired(r, t)
    THEN [r EXCEPT !.status = "FAILED", !.errorMessage = "Notification expired"]
    ELSE IF out.fault = "lookup"
    THEN Caught(r, "device lookup error")
    ELSE IF Deliver(r, out, t).status = "FAILED"
    THEN Deliver(r, out, t)
    ELSE [Deliver(r, out, t) EXCEPT !.sentAt = t]

\* a mutant of ProcessRecord: expiresAt is not looked at
ProcessRecord_NoExpiryCheck(r, out, t) ==
    IF out.fault = "lookup"
    THEN Caught(r, "device lookup error")
    ELSE [Deliver(r, out, t) EXCEPT !.sentAt = t]

\* a mutant of ProcessRecord: the expiry branch counts the attempt
ProcessRecord_CountsExpiry(r, out, t) ==
    IF Expired(r, t)
    THEN [r EXCEPT !.status = "FAILED", !.errorMessage = "Notification expired",
                   !.retryCount = @ + 1]
    ELSE IF out.fault = "lookup"
    THEN Caught(r, "device lookup error")
    ELSE [Deliver(r, out, t) EXCEPT !.sentAt = t]

\* the record in memory after the expiry branch
ExpiredRecord(r) ==
    [r EXCEPT !.status = "FAILED", !.errorMessage = "Notification expired"]

\* the record in memory after the try block and its catch
TriedRecord(r, out, t) ==
    IF out.fault = "lookup"
    THEN Caught(r, "device lookup error")
    ELSE [Deliver(r, out, t) EXCEPT !.sentAt = t]

\* the record processNotification saves
ProcessRecord(r, out, t) ==
    IF Expired(r, t) THEN ExpiredRecord(r) ELSE TriedRecord(r, out, t)

\* whether processNotification raises to the queue
ProcessRaises(r, out, t) == ~Expired(r, t) /\ out.fault # "none"

\* whether processNotification calls a channel provider
ProcessCalls(r, out, t) ==
    ~Expired(r, t) /\ out.fault # "lookup" /\ CallsProvider(r, out)

\* the answers the collaborators can give for record r
Outcomes(r) ==
    CASE r.type = "push" ->
           {o \in [n : 0..MaxDevices, s : 0..MaxDevices, err : PushErrors \cup {NoMsg},
                    fault : {"none"}] :
              o.s <= o.n /\ (o.err # NoMsg => (o.n > 0 /\ o.s = 0))}
           \cup {[n |-> 0, s |-> 0, err |-> NoMsg, fault |-> "lookup"]}
      [] r.type = "email" ->
           {o \in [n : {1}, s : 0..1, err : EmailErrors \cup {NoMsg}, fault : {"none"}] :
              o.err # NoMsg => o.s = 0}
      [] r.type = "sms" ->
           {o \in [n : {1}, s : 0..1, err : SmsErrors \cup {NoMsg}, fault : {"none"}] :
              o.err # NoMsg => o.s = 0}
      [] OTHER ->
           {[n |-> 0, s |-> 0, err |-> NoMsg, fault |-> "none"]}

\* the attempts the queue gives a job: its attempts option, 1 when unset
Budget(j) == IF j.attempts = 0 THEN 1 ELSE j.attempts

\* the queue after the job's attempt: done, or kept for redelivery
AfterAttempt(j, raised) ==
    IF raised /\ j.made + 1 < Budget(j)
    THEN (queue (-) SetToBag({j})) (+) SetToBag({[j EXCEPT !.made = @ + 1]})
    ELSE queue (-) SetToBag({j})

\* processNotification run to completion for job j, the collaborators
\* answering out; a call raises only while the record's retryCount is below
\* maxRetryCount
ProcessWithin(j, out, maxRetryCount) ==
    LET r == notifs[j.id]
    IN /\ BagIn(j, queue)
       /\ out \in Outcomes(r)
       /\ ProcessRaises(r, out, now) => r.retryCount < maxRetryCount
       /\ notifs' = [notifs EXCEPT ![j.id] = ProcessRecord(r, out, now)]
       /\ queue' = AfterAttempt(j, ProcessRaises(r, out, now))
       /\ contacted' = IF ProcessCalls(r, out, now)
                        THEN contacted \cup {j.id} ELSE contacted
       /\ last' = Result("process", j.id, "",
                         IF ProcessRaises(r, out, now) THEN "raise" ELSE "void",
                         0, ProcessCalls(r, out, now))
       /\ UNCHANGED <<now, rl, sweptAt, workers, sweepers, hist, observed>>

Process(j, out) == ProcessWithin(j, out, MaxRetryCount)

(***************************************************************************)
(* processNotification(id) step by step, as each of several workers runs   *)
(* it: findOne and the expiry check (WLoad), the try block with its calls  *)
(* to the device directory and the channel provider (WSwitch), and the     *)
(* save of the record in the worker's memory, after which the call returns *)
(* or raises to the queue (WSave). The queue gives a job to one worker at  *)
(* a time; two jobs for one record can be with two workers at once.        *)
(***************************************************************************)
\* the workers that hold job j
Holders(j) == {v \in Workers : workers[v].pc # "idle" /\ workers[v].job = <<j>>}

WLoad(w, j) ==
    LET r == notifs[j.id]
    IN /\ workers[w].pc = "idle"
       /\ BagIn(j, queue)
       /\ CopiesIn(j, queue) > Cardinality(Holders(j))
       /\ workers' = [workers EXCEPT ![w] =
                        [pc |-> IF Expired(r, now) THEN "save" ELSE "switch",
                         job |-> <<j>>, snap |-> <<r>>,
                         m |-> IF Expired(r, now) THEN <<ExpiredRecord(r)>> ELSE <<r>>,
                         raised |-> FALSE, called |-> FALSE]]
       /\ last' = Result("load", j.id, "", "none", 0, FALSE)
       /\ UNCHANGED <<now, notifs, queue, rl, contacted, sweptAt, sweepers, hist, observed>>

WSwitch(w, out) ==
    LET m == workers[w].m[1]
        id == workers[w].job[1].id
        calls == out.fault # "lookup" /\ CallsProvider(m, out)
    IN /\ workers[w].pc = "switch"
       /\ out \in Outcomes(m)
       /\ out.fault # "none" => m.retryCount < MaxRetryCount
       /\ workers' = [workers EXCEPT ![w].pc = "save",
                                      ![w].m = <<TriedRecord(m, out, now)>>,
                                      ![w].raised = (out.fault # "none"),
                                      ![w].called = calls]
       /\ contacted' = IF calls THEN contacted \cup {id} ELSE contacted
       /\ last' = Result("switch", id, "", "none", 0, calls)
       /\ UNCHANGED <<now, notifs, queue, rl, sweptAt, sweepers, hist, observed>>

\* a mutant of WSave: the record is written only when the store still holds
\* what the worker loaded
WSave_IfUnchanged(w) ==
    LET j == workers[w].job[1]
    IN /\ workers[w].pc = "save"
       /\ notifs' = IF notifs[j.id] = workers[w].snap[1]
                     THEN [notifs EXCEPT ![j.id] = workers[w].m[1]]
                     ELSE notifs
       /\ queue' = AfterAttempt(j, workers[w].raised)
       /\ workers' = [workers EXCEPT ![w].pc = "idle"]
       /\ last' = Result("process", j.id, "",
                         IF workers[w].raised THEN "raise" ELSE "void",
                         0, workers[w].called)
       /\ UNCHANGED <<now, rl, contacted, sweptAt, sweepers, hist, observed>>

WSave(w) ==
    LET j == workers[w].job[1]
    IN /\ workers[w].pc = "save"
       /\ notifs' = [notifs EXCEPT ![j.id] = workers[w].m[1]]
       /\ queue' = AfterAttempt(j, workers[w].raised)
       /\ workers' = [workers EXCEPT ![w].pc = "idle"]
       /\ last' = Result("process", j.id, "",
                         IF workers[w].raised THEN "raise" ELSE "void",
                         0, workers[w].called)
       /\ UNCHANGED <<now, rl, contacted, sweptAt, sweepers, hist, observed>>

(***************************************************************************)
(* getFailedNotifications(limit = 50): the ids of the newest FAILED        *)
(* records, at most limit of them (ids grow with createdAt)                *)
(***************************************************************************)
FAILED_LIMIT == 50

getFailedNotifications(limit) ==
    LET failed == {i \in DOMAIN notifs : notifs[i].status = "FAILED"}
    IN {i \in failed : Cardinality({k \in failed : k > i}) < limit}

(***************************************************************************)
(* The requests the callers make                                           *)
(***************************************************************************)
\* the contact fields of data that the type's channel reads
DataFor(t) ==
    CASE t = "email" -> {{}, {"email"}}
      [] t = "sms" -> {{}, {"phone"}}
      [] OTHER -> {{}}

Requests(users, workspaces, types, priorities, scheds, exps) ==
    {q \in [userId : users, workspaceId : workspaces, type : types,
            priority : priorities, data : SUBSET {"email", "phone"},
            scheduledAt : scheds, expiresAt : exps] :
        q.data \in DataFor(q.type)}

\* the requests of Spec: one user's notifications of every type, immediate or
\* scheduled, with or without an expiry
SendRequests ==
    Requests({"u1"}, {"w1"}, Types, {"none"}, {NoTime} \cup 1..MaxClock,
             {NoTime} \cup 0..(MaxClock - 1))

\* the calls per rate window the model lets each user make
Calls == [u \in Users |-> MaxCalls]

UserLists(users) == UNION {[1..k -> users] : k \in 1..MaxBulk}

BulkRequests(users, workspaces, types, priorities) ==
    {q \in [userIds : UserLists(users), workspaceId : workspaces, type : types,
            priority : priorities, data : SUBSET {"email", "phone"}] :
        q.data \in DataFor(q.type)}

SendBulkRequests == BulkRequests({"u1"}, {"w1"}, Types, {"none"})

(***************************************************************************)
(* The service: every handler runs to completion                           *)
(***************************************************************************)
Next ==
    \/ Tick(0..MaxClock)
    \/ \E dto \in SendRequests, canSend \in BOOLEAN : Send(dto, canSend, MaxNotifs, Calls)
    \/ \E dto \in SendBulkRequests :
          \E prefs \in [1..Len(dto.userIds) -> BOOLEAN] :
             SendBulk(dto, prefs, MaxNotifs, Calls)
    \/ \E u \in Users, ids \in SUBSET Ids : MarkAsRead(u, ids)
    \/ \E u \in Users, w \in {"w1", NoWs} : MarkAllAsRead(u, w)
    \/ \E b \in SUBSET Ids : Sweep(b)
    \/ \E id \in Ids : RetryNotification(id)
    \/ \E j \in BagToSet(queue) : \E out \in Outcomes(notifs[j.id]) : Process(j, out)

Spec == Init /\ [][Next]_vars

(***************************************************************************)
(* The admission path alone, over more than one rate window: user u1 may   *)
(* call until the limiter rejects, and the clock can reach and pass a      *)
(* window's resetAt                                                        *)
(***************************************************************************)
RLRequests ==
    Requests(Users, {"w1"}, {"in_app"}, {"none"}, {NoTime}, {NoTime})

RLBulkRequests == BulkRequests(Users, {"w1"}, {"in_app"}, {"none"})

\* the instants of SpecRL: the first ones of two consecutive windows
RLInstants == (0..RLMaxClock) \cup {RATE_LIMIT_WINDOW + t : t \in 0..RLMaxClock}

\* u1 may call beyond the limit, u2 as in Spec
RLCalls == [u \in Users |-> IF u = "u1" THEN RATE_LIMIT_MAX + MaxCalls ELSE MaxCalls]

NextRL ==
    \/ Tick(RLInstants)
    \/ \E dto \in RLRequests, canSend \in BOOLEAN :
          Send(dto, canSend, RLMaxNotifs, RLCalls)
    \/ \E dto \in RLBulkRequests :
          \E prefs \in [1..Len(dto.userIds) -> BOOLEAN] :
             SendBulk(dto, prefs, RLMaxNotifs, RLCalls)

SpecRL == Init /\ [][NextRL]_vars

(***************************************************************************)
(* The read surface over two users and two workspaces: in-app              *)
(* notifications, all admitted, are sent, processed and marked read, at    *)
(* one instant of the clock                                                *)
(***************************************************************************)
WSRequests ==
    Requests(Users, Workspaces, {"in_app"}, {"none"}, {NoTime}, {NoTime})

WSCalls == [u \in Users |-> WSMaxNotifs]

NextWS ==
    \/ \E dto \in WSRequests : Send(dto, TRUE, WSMaxNotifs, WSCalls)
    \/ \E u \in Users, w \in Workspaces \cup {NoWs} : MarkAllAsRead(u, w)
    \/ \E j \in BagToSet(queue) : \E out \in Outcomes(notifs[j.id]) : Process(j, out)

SpecWS == Init /\ [][NextWS]_vars

(***************************************************************************)
(* Two workers on immediate push records: send, retryNotification, and     *)
(* processNotification step by step                                        *)
(***************************************************************************)
CCRequests == Requests({"u1"}, {"w1"}, {"push"}, {"none"}, {NoTime}, {NoTime})

CCCalls == [u \in Users |-> CCMaxNotifs]

\* the directory returns at most one device, and a provider that fails
\* reports one and the same error
CCOutcomes(r) ==
    {o \in Outcomes(r) : o.n <= 1 /\ (o.n > o.s => o.err = "push provider error")}

NextCC ==
    \/ \E dto \in CCRequests : Send(dto, TRUE, CCMaxNotifs, CCCalls)
    \/ \E id \in 1..CCMaxNotifs : RetryNotification(id)
    \/ \E w \in Workers : \E j \in BagToSet(queue) : WLoad(w, j)
    \/ \E w \in {v \in Workers : workers[v].pc = "switch"} :
          \E out \in CCOutcomes(workers[w].m[1]) : WSwitch(w, out)
    \/ \E w \in Workers : WSave(w)

SpecCC == Init /\ [][NextCC]_vars

(***************************************************************************)
(* Two schedulers on scheduled in-app records: send, the clock, and the    *)
(* sweep step by step                                                      *)
(***************************************************************************)
SWRequests ==
    Requests({"u1"}, {"w1"}, {"in_app"}, {"none"}, 0..MaxClock,
             {NoTime} \cup 0..(MaxClock - 1))

SWCalls == [u \in Users |-> SWMaxNotifs]

NextSW ==
    \/ Tick(0..MaxClock)
    \/ \E dto \in SWRequests : Send(dto, TRUE, SWMaxNotifs, SWCalls)
    \/ \E s \in Sweepers : \E b \in SUBSET (1..SWMaxNotifs) : SFind(s, b)
    \/ \E s \in Sweepers : \E i \in 1..SWMaxNotifs : SSave(s, i)
    \/ \E s \in Sweepers : SAdd(s)

SpecSW == Init /\ [][NextSW]_vars

(***************************************************************************)
(* The limiter across the end of a rate window: one user's sends, all      *)
(* denied by the preference gate after the limiter has counted them, at    *)
(* the instant that can open a window whose last instant is ObsFrom, at    *)
(* ObsFrom, and right after it                                             *)
(***************************************************************************)
SLRequests == Requests({"u1"}, {"w1"}, {"in_app"}, {"none"}, {NoTime}, {NoTime})

SLInstants == {ObsFrom - RATE_LIMIT_WINDOW} \cup {ObsFrom + t : t \in 0..SLMaxClock}

NextSL ==
    \/ Tick(SLInstants)
    \/ \E dto \in SLRequests : Send(dto, FALSE, MaxNotifs, RLCalls)

SpecSL == Init /\ [][NextSL]_vars

(***************************************************************************)
(* sendBulk over two users within one rate window: lists of up to MaxBulk  *)
(* users, a user possibly listed twice; u1 may call until the limiter      *)
(* rejects                                                                 *)
(***************************************************************************)
BKRequests == BulkRequests(Users, {"w1"}, {"in_app"}, {"none"})

BKCalls == [u \in Users |-> IF u = "u1" THEN RATE_LIMIT_MAX + MaxCalls ELSE BKMaxNotifs]

NextBK ==
    \/ \E dto \in RLRequests, canSend \in BOOLEAN :
          Send(dto, canSend, BKMaxNotifs, BKCalls)
    \/ \E dto \in BKRequests :
          \E prefs \in [1..Len(dto.userIds) -> BOOLEAN] :
             SendBulk(dto, prefs, BKMaxNotifs, BKCalls)

SpecBK == Init /\ [][NextBK]_vars

(***************************************************************************)
(* The queue at work on one immediate push record: send, retryNotification *)
(* and processNotification, which may raise until the job's attempts are   *)
(* used up. The queue's workers take every job that waits: the calls for   *)
(* the jobs of each record are weakly fair.                                *)
(***************************************************************************)
ProcessFor(i) ==
    \E j \in BagToSet(queue) :
       /\ j.id = i
       /\ \E out \in Outcomes(notifs[j.id]) : ProcessWithin(j, out, LVMaxRetryCount)

NextLV ==
    \/ \E dto \in CCRequests : Send(dto, TRUE, CCMaxNotifs, CCCalls)
    \/ \E id \in 1..CCMaxNotifs : RetryNotification(id)
    \/ \E i \in 1..CCMaxNotifs : ProcessFor(i)

SpecLV ==
    Init /\ [][NextLV]_vars /\ \A i \in 1..CCMaxNotifs : WF_vars(ProcessFor(i))

(***************************************************************************)
(* A backlog: the store holds more due scheduled records than one sweep    *)
(* takes. The records are in-app records of one user, scheduled for 0, the *)
(* first without expiry and the others expiring at 0; the clock is at 1.   *)
(* The scheduler runs the sweep again and again (@Cron EVERY_MINUTE).      *)
(***************************************************************************)
SBBacklog == SWEEP_BATCH + SBExtra

SBRecord(i) ==
    NewRecord([userId |-> "u1", workspaceId |-> "w1", type |-> "in_app",
               priority |-> "none", data |-> {}, scheduledAt |-> 0,
               expiresAt |-> IF i = 1 THEN NoTime ELSE 0])

InitSB ==
    /\ now = 1
    /\ notifs = [i \in 1..SBBacklog |-> SBRecord(i)]
    /\ queue = EmptyBag
    /\ rl = [u \in Users |-> NoLimit]
    /\ contacted = {}
    /\ sweptAt = NoTime
    /\ last = Result("init", 0, "", "none", 0, FALSE)
    /\ workers = [w \in Workers |-> Idle]
    /\ sweepers = [s \in Sweepers |-> Resting]
    /\ hist = [i \in 1..SBBacklog |-> NoHist]
    /\ observed = [u \in Users |-> 0]

SweepTick == \E b \in Batches(now) : Sweep(b)

NextSB ==
    \/ SweepTick
    \/ \E j \in BagToSet(queue) : \E out \in Outcomes(notifs[j.id]) : Process(j, out)

SpecSB == InitSB /\ [][NextSB]_vars /\ WF_vars(SweepTick)

(***************************************************************************)
(* Claims                                                                  *)
(***************************************************************************)

\* C1: no window ever counts more than RATE_LIMIT_MAX calls. Within a window
\* (the clock not past resetAt) every send of the user that reaches the
\* limiter counts, whatever the preference gate then answers, until
\* RATE_LIMIT_MAX have been admitted; from then on every send of that user is
\* rejected: it returns null and leaves the store, the queue and the window
\* as they were. The first send after resetAt has passed is admitted and
\* starts a new window with count 1. Every entry of a sendBulk list counts in
\* its user's window as well, up to RATE_LIMIT_MAX, whatever the gate answers.
C1_RateLimitRejects ==
    /\ [](\A u \in Users : rl[u].count <= RATE_LIMIT_MAX)
    /\ [][\A u \in Users :
            (last'.op = "send" /\ last'.user = u /\ rl[u] # NoLimit) =>
               /\ (rl[u].count >= RATE_LIMIT_MAX /\ now <= rl[u].resetAt) =>
                     /\ last'.ret = "null_rate_limited"
                     /\ UNCHANGED <<notifs, queue, rl>>
               /\ (rl[u].count < RATE_LIMIT_MAX /\ now <= rl[u].resetAt) =>
                     /\ last'.ret # "null_rate_limited"
                     /\ rl'[u] = [rl[u] EXCEPT !.count = @ + 1]
               /\ now > rl[u].resetAt =>
                     /\ last'.ret # "null_rate_limited"
                     /\ rl'[u] = [count |-> 1, resetAt |-> now + RATE_LIMIT_WINDOW]
       ]_vars
    /\ [][\A dto \in RLBulkRequests : \A prefs \in [1..Len(dto.userIds) -> BOOLEAN] :
            (last'.op = "sendBulk" /\ SendBulk(dto, prefs, RLMaxNotifs, RLCalls)) =>
               \A u \in Users :
                  LET k == Cardinality({i \in 1..Len(dto.userIds) : dto.userIds[i] = u})
                      sum == rl[u].count + k
                  IN (k > 0 /\ rl[u] # NoLimit /\ now <= rl[u].resetAt) =>
                        rl'[u] = [rl[u] EXCEPT !.count =
                                     IF sum > RATE_LIMIT_MAX THEN RATE_LIMIT_MAX ELSE sum]
       ]_vars

\* C1 witness: a send was rejected by the limiter at the very instant resetAt,
\* with the window full
C1_Witness ==
    /\ last.op = "send"
    /\ last.ret = "null_rate_limited"
    /\ rl[last.user].count = RATE_LIMIT_MAX
    /\ now = rl[last.user].resetAt

\* C6: a send that fails admission (the limiter rejects, or the preference
\* gate answers no) returns null and leaves the store and the queue as they
\* were.
C6_SilentDrop ==
    [][/\ \A dto \in RLRequests :
            Send(dto, FALSE, RLMaxNotifs, RLCalls) =>
               /\ last'.ret \in {"null_rate_limited", "null_blocked"}
               /\ UNCHANGED <<notifs, queue>>
       /\ (last'.op = "send" /\ ~RateAdmit(rl, last'.user, now)) =>
               /\ last'.ret = "null_rate_limited"
               /\ UNCHANGED <<notifs, queue>>
      ]_vars

\* C6 witness: a send was dropped by the preference gate while the store
\* already held a record
C6_Witness ==
    /\ last.op = "send"
    /\ last.ret = "null_blocked"
    /\ Len(notifs) > 0

\* C2: a job for a scheduled record is submitted to the queue, by whatever
\* operation, only in or after a sweep that ran with the clock at or past the
\* record's scheduledAt.
C2_NoEarlySubmission ==
    [][\A i \in DOMAIN notifs' :
          (notifs'[i].scheduledAt # NoTime /\ JobCount(queue', i) > JobCount(queue, i))
             => sweptAt' # NoTime /\ sweptAt' >= notifs'[i].scheduledAt
      ]_vars

\* C2 witness: a sweep has run before the scheduledAt of a record scheduled in
\* the future, and has left it PENDING with no job
C2_Witness ==
    \E i \in DOMAIN notifs :
       /\ last.op = "sweep"
       /\ notifs[i].status = "PENDING"
       /\ notifs[i].scheduledAt > now
       /\ sweptAt = now
       /\ JobCount(queue, i) = 0

\* a record whose expiresAt is strictly before its scheduledAt
Doomed(r) ==
    r.scheduledAt # NoTime /\ r.expiresAt # NoTime /\ r.expiresAt < r.scheduledAt

\* C3 as claimed: a record whose expiresAt is before its scheduledAt ends in
\* FAILED (it is FAILED whenever it has left PENDING and no job for it is
\* left in the queue), and no channel provider is ever called for it.
C3_EndsFailed ==
    \A i \in DOMAIN notifs :
       Doomed(notifs[i]) =>
          /\ i \notin contacted
          /\ (notifs[i].status # "PENDING" /\ JobCount(queue, i) = 0)
                => notifs[i].status = "FAILED"

\* C3 as amended: no channel provider is ever called for such a record and it
\* is never SENT or DELIVERED; the sweep that selects it and every process
\* call for it set it FAILED; with no job left it is FAILED, or READ when
\* markAsRead or markAllAsRead touched it.
C3_FailedOrRead ==
    /\ [](\A i \in DOMAIN notifs :
            Doomed(notifs[i]) =>
               /\ i \notin contacted
               /\ notifs[i].status \notin {"SENT", "DELIVERED"}
               /\ (notifs[i].status \notin {"PENDING", "READ"} /\ JobCount(queue, i) = 0)
                     => notifs[i].status = "FAILED")
    /\ [][\A i \in DOMAIN notifs :
            Doomed(notifs[i]) =>
               /\ (last'.op = "sweep" /\ i \in Due(now)) => notifs'[i].status = "FAILED"
               /\ (last'.op = "process" /\ last'.id = i) =>
                     notifs'[i].status = "FAILED" /\ ~last'.called
       ]_vars

\* C3 witness: such a record, failed by the sweep and retried, was processed
\* and failed again as expired
C3_Witness ==
    \E i \in DOMAIN notifs :
       /\ Doomed(notifs[i])
       /\ last.op = "process" /\ last.id = i
       /\ notifs[i].status = "FAILED"
       /\ notifs[i].errorMessage = "Notification expired"

\* C4: when process calls the push provider and it reports some destinations
\* delivered and some failed, the record becomes SENT with an errorMessage,
\* and getFailedNotifications does not return it.
C4_PartialIsSent ==
    [][\A j \in BagToSet(queue) : \A out \in Outcomes(notifs[j.id]) :
          (/\ notifs[j.id].type = "push"
           /\ ProcessCalls(notifs[j.id], out, now)
           /\ 0 < out.s /\ out.s < out.n
           /\ Process(j, out))
             => /\ notifs'[j.id].status = "SENT"
                /\ notifs'[j.id].errorMessage # NoMsg
                /\ j.id \notin getFailedNotifications(FAILED_LIMIT)'
      ]_vars

\* C4 witness: a push record was processed, one destination failed, and it is
\* SENT with the partial-delivery message
C4_Witness ==
    \E i \in DOMAIN notifs :
       /\ last.op = "process" /\ last.id = i /\ last.called
       /\ notifs[i].type = "push"
       /\ notifs[i].status = "SENT"
       /\ notifs[i].errorMessage = PartialMsg(1)
       /\ i \notin getFailedNotifications(FAILED_LIMIT)

\* C5: retryNotification on an unknown id or on a record that is not FAILED
\* returns false and changes neither the store nor the queue; on a FAILED
\* record it returns true, sets status QUEUED, clears errorMessage, changes
\* nothing else, and adds exactly one job, for that id, to the queue.
C5_Retry ==
    [][\A id \in Ids :
          (last'.op = "retry" /\ last'.id = id) =>
             IF id \in DOMAIN notifs /\ notifs[id].status = "FAILED"
             THEN /\ last'.ret = "true"
                  /\ notifs' = [notifs EXCEPT ![id].status = "QUEUED",
                                               ![id].errorMessage = NoMsg]
                  /\ JobCount(queue', id) = JobCount(queue, id) + 1
                  /\ BagCardinality(queue') = BagCardinality(queue) + 1
             ELSE /\ last'.ret = "false"
                  /\ UNCHANGED <<notifs, queue>>
      ]_vars

\* C5 witness: a retry returned true for a record that had failed with an
\* exception, and the record is QUEUED with its errorMessage cleared
C5_Witness ==
    \E i \in DOMAIN notifs :
       /\ last.op = "retry" /\ last.id = i /\ last.ret = "true"
       /\ notifs[i].status = "QUEUED"
       /\ notifs[i].errorMessage = NoMsg
       /\ notifs[i].retryCount > 0
       /\ JobCount(queue, i) > 0

Rank(st) ==
    CASE st = "PENDING" -> 1
      [] st = "QUEUED" -> 2
      [] st = "SENT" -> 3
      [] st = "DELIVERED" -> 3
      [] st = "READ" -> 4
      [] OTHER -> 0

\* C7: no operation moves a record to a lower-ranked status (PENDING < QUEUED
\* < SENT, DELIVERED < READ), a READ record stays READ, and a FAILED record
\* goes back to QUEUED only by retryNotification.
C7_NoRegress ==
    [][\A i \in DOMAIN notifs :
          LET a == notifs[i].status
              b == notifs'[i].status
          IN /\ (a # "FAILED" /\ b # "FAILED") => Rank(b) >= Rank(a)
             /\ a = "READ" => b = "READ"
             /\ (a = "FAILED" /\ b \notin {"FAILED", "READ"}) =>
                   (b = "QUEUED" /\ last'.op = "retry" /\ last'.id = i)
      ]_vars

\* C8 as claimed: process on an in-app record always leaves it DELIVERED and
\* calls no channel provider.
C8_InAppAlwaysDelivered ==
    [][\A i \in DOMAIN notifs :
          (last'.op = "process" /\ last'.id = i /\ notifs[i].type = "in_app") =>
             notifs'[i].status = "DELIVERED" /\ ~last'.called
      ]_vars

\* C8 as amended: process on an in-app record calls no channel provider; it
\* leaves the record DELIVERED, whatever its prior status, unless its
\* expiresAt has passed, and then it leaves it FAILED and not delivered.
C8_InAppDeliveredUnlessExpired ==
    [][\A i \in DOMAIN notifs :
          (last'.op = "process" /\ last'.id = i /\ notifs[i].type = "in_app") =>
             /\ ~last'.called
             /\ contacted' = contacted
             /\ IF Expired(notifs[i], now)
                THEN /\ notifs'[i].status = "FAILED"
                     /\ notifs'[i].deliveredAt = notifs[i].deliveredAt
                ELSE /\ notifs'[i].status = "DELIVERED"
                     /\ notifs'[i].deliveredAt = now
      ]_vars

\* C8 witness: an in-app record that had been marked read was processed and
\* is DELIVERED
C8_Witness ==
    \E i \in DOMAIN notifs :
       /\ last.op = "process" /\ last.id = i /\ ~last.called
       /\ notifs[i].type = "in_app"
       /\ notifs[i].status = "DELIVERED"
       /\ notifs[i].readAt # NoTime

\* C9: when process asks the device directory for a push record's devices
\* and gets none, the record becomes FAILED with "No registered devices", no
\* provider is called, process returns normally, retryCount is unchanged and
\* sentAt is set.
C9_NoDevices ==
    [][\A j \in BagToSet(queue) : \A out \in Outcomes(notifs[j.id]) :
          (/\ notifs[j.id].type = "push"
           /\ ~Expired(notifs[j.id], now)
           /\ out.fault = "none" /\ out.n = 0
           /\ Process(j, out))
             => /\ notifs'[j.id].status = "FAILED"
                /\ notifs'[j.id].errorMessage = "No registered devices"
                /\ notifs'[j.id].retryCount = notifs[j.id].retryCount
                /\ notifs'[j.id].sentAt = now
                /\ last'.ret = "void" /\ ~last'.called
                /\ contacted' = contacted
                /\ JobCount(queue', j.id) = JobCount(queue, j.id) - 1
      ]_vars

\* C9 witness: a push record was processed with no devices
C9_Witness ==
    \E i \in DOMAIN notifs :
       /\ last.op = "process" /\ last.id = i /\ last.ret = "void"
       /\ notifs[i].type = "push"
       /\ notifs[i].status = "FAILED"
       /\ notifs[i].errorMessage = "No registered devices"
       /\ notifs[i].sentAt = now
       /\ i \notin contacted

\* C10: markAsRead on a record that is already READ changes nothing: the
\* record keeps status READ and the readAt it had.
C10_MarkAsReadIdempotent ==
    [][last'.op = "markAsRead" =>
          \A i \in DOMAIN notifs :
             (notifs[i].status = "READ" /\ notifs[i].readAt # NoTime)
                => notifs'[i] = notifs[i]
      ]_vars

\* C11: markAllAsRead(u, w) with a workspace w given changes no record of
\* another user and no record of u in another workspace, in any field; of u's
\* records in w, those not READ become READ with readAt the time of the call
\* and are otherwise unchanged, and those already READ are unchanged.
C11_WorkspaceScoped ==
    [][\A u \in Users, w \in Workspaces :
          MarkAllAsRead(u, w) =>
             \A i \in DOMAIN notifs :
                /\ (notifs[i].userId # u \/ notifs[i].workspaceId # w
                        \/ notifs[i].status = "READ")
                      => notifs'[i] = notifs[i]
                /\ (notifs[i].userId = u /\ notifs[i].workspaceId = w
                        /\ notifs[i].status # "READ")
                      => notifs'[i] = [notifs[i] EXCEPT !.status = "READ",
                                                         !.readAt = now]
      ]_vars

\* C11 witness: markAllAsRead for u1 has marked a record of u1 in one
\* workspace and left an unread record of u1 in the other workspace
C11_Witness ==
    \E i, k \in DOMAIN notifs :
       /\ last.op = "markAllAsRead" /\ last.user = "u1"
       /\ notifs[i].userId = "u1" /\ notifs[k].userId = "u1"
       /\ notifs[i].workspaceId # notifs[k].workspaceId
       /\ notifs[i].status = "READ" /\ notifs[i].readAt = now
       /\ notifs[k].status # "READ" /\ notifs[k].readAt = NoTime

\* the record has no address for its channel: an email record without
\* data.email, an sms record without data.phone
MissingContact(r) ==
    \/ r.type = "email" /\ "email" \notin r.data
    \/ r.type = "sms" /\ "phone" \notin r.data

\* C12: when process, on a record that has not expired, finds the email
\* address or the phone number missing, or calls the channel provider and gets
\* a structured failure with no destination delivered (a provider that is not
\* initialized included), the record becomes FAILED with a non-empty
\* errorMessage, process returns normally, the job is done (the queue does not
\* redeliver it), retryCount is unchanged, and with the contact missing no
\* provider is called.
C12_FailuresRecorded ==
    [][\A j \in BagToSet(queue) : \A out \in Outcomes(notifs[j.id]) :
          LET r == notifs[j.id]
          IN (/\ ~Expired(r, now)
              /\ out.fault = "none"
              /\ MissingContact(r) \/ (CallsProvider(r, out) /\ out.s = 0)
              /\ Process(j, out))
                => /\ notifs'[j.id].status = "FAILED"
                   /\ notifs'[j.id].errorMessage # NoMsg
                   /\ notifs'[j.id].retryCount = r.retryCount
                   /\ last'.ret = "void"
                   /\ JobCount(queue', j.id) = JobCount(queue, j.id) - 1
                   /\ QueueLen' = QueueLen - 1
                   /\ MissingContact(r) => (~last'.called /\ contacted' = contacted)
                   /\ ~MissingContact(r) => (last'.called /\ j.id \in contacted')
      ]_vars

\* C12 witness: process called the SMS provider, which was not initialized,
\* and returned normally with the record FAILED
C12_Witness ==
    \E i \in DOMAIN notifs :
       /\ last.op = "process" /\ last.id = i /\ last.ret = "void" /\ last.called
       /\ notifs[i].type = "sms"
       /\ notifs[i].status = "FAILED"
       /\ notifs[i].errorMessage = "Twilio client not initialized"
       /\ notifs[i].retryCount = 0
       /\ JobCount(queue, i) = 0

\* C13: when a collaborator call inside process raises (the device lookup of
\* a push record that has not expired), process saves the record as it was
\* but FAILED, with the exception's message as errorMessage and retryCount
\* one higher, and raises to the queue, which keeps the job for redelivery
\* while attempts remain.
C13_RaiseIsRecordedAndRethrown ==
    [][\A j \in BagToSet(queue) : \A out \in Outcomes(notifs[j.id]) :
          LET r == notifs[j.id]
          IN (~Expired(r, now) /\ out.fault # "none" /\ Process(j, out))
                => /\ notifs' = [notifs EXCEPT ![j.id] =
                                    [r EXCEPT !.status = "FAILED",
                                              !.errorMessage = "device lookup error",
                                              !.retryCount = r.retryCount + 1]]
                   /\ last'.ret = "raise"
                   /\ ~last'.called
                   /\ QueueLen' = IF j.made + 1 < Budget(j) THEN QueueLen ELSE QueueLen - 1
      ]_vars

\* C13 witness: a process call raised for a record that had not failed
\* before, and the job is kept for its second attempt
C13_Witness ==
    \E i \in DOMAIN notifs :
       /\ last.op = "process" /\ last.id = i /\ last.ret = "raise"
       /\ notifs[i].status = "FAILED"
       /\ notifs[i].errorMessage = "device lookup error"
       /\ notifs[i].retryCount = 1
       /\ \E j \in BagToSet(queue) : j.id = i /\ j.made = 1

\* C14: a process call for a record whose expiresAt is before the clock saves
\* the record as it was but FAILED with "Notification expired", calls no
\* channel provider, returns normally and finishes the job; and every step
\* that calls a provider for a record, or stamps its sentAt or deliveredAt,
\* happens with the clock not past the record's expiresAt.
C14_NoDeliveryAfterExpiry ==
    [][\A i \in DOMAIN notifs :
          LET r == notifs[i]
              past == r.expiresAt # NoTime /\ r.expiresAt < now
          IN /\ (last'.op = "process" /\ last'.id = i /\ past) =>
                   /\ notifs' = [notifs EXCEPT ![i] =
                                    [r EXCEPT !.status = "FAILED",
                                              !.errorMessage = "Notification expired"]]
                   /\ ~last'.called
                   /\ contacted' = contacted
                   /\ last'.ret = "void"
                   /\ JobCount(queue', i) = JobCount(queue, i) - 1
             /\ (\/ i \in contacted' \ contacted
                 \/ last'.op = "process" /\ last'.id = i /\ last'.called
                 \/ notifs'[i].sentAt # r.sentAt
                 \/ notifs'[i].deliveredAt # r.deliveredAt
                 \/ notifs'[i].status \in {"SENT", "DELIVERED"}
                      /\ r.status \notin {"SENT", "DELIVERED"}) => ~past
      ]_vars

\* C14 witness: an immediate in-app record was processed after its expiresAt
\* and is FAILED, not delivered
C14_Witness ==
    \E i \in DOMAIN notifs :
       /\ last.op = "process" /\ last.id = i /\ last.ret = "void"
       /\ notifs[i].type = "in_app"
       /\ notifs[i].scheduledAt = NoTime
       /\ notifs[i].expiresAt # NoTime /\ notifs[i].expiresAt < now
       /\ notifs[i].status = "FAILED"
       /\ notifs[i].errorMessage = "Notification expired"
       /\ notifs[i].deliveredAt = NoTime

\* C15: a send without scheduledAt that passes admission appends one record,
\* in status QUEUED, and submits exactly one job, for that record; and when a
\* job is processed for an email record that carries data.email and the email
\* provider is called and reports success, the record is saved SENT with
\* sentAt the time of the call, and process returns normally.
C15_ImmediatePath ==
    [][/\ (last'.op = "send" /\ last'.ret = "record"
              /\ notifs'[Len(notifs')].scheduledAt = NoTime) =>
             /\ Len(notifs') = Len(notifs) + 1
             /\ last'.id = Len(notifs')
             /\ \A i \in DOMAIN notifs : notifs'[i] = notifs[i]
             /\ notifs'[last'.id].status = "QUEUED"
             /\ JobCount(queue', last'.id) = 1
             /\ QueueLen' = QueueLen + 1
       /\ \A j \in BagToSet(queue) : \A out \in Outcomes(notifs[j.id]) :
             (/\ notifs[j.id].type = "email"
              /\ "email" \in notifs[j.id].data
              /\ ProcessCalls(notifs[j.id], out, now)
              /\ out.s > 0
              /\ Process(j, out))
                => /\ notifs'[j.id].status = "SENT"
                   /\ notifs'[j.id].sentAt = now
                   /\ last'.ret = "void" /\ last'.called
                   /\ JobCount(queue', j.id) = JobCount(queue, j.id) - 1
      ]_vars

\* C15 witness: an immediate email record has gone from send through its one
\* job to SENT, and no job for it is left
C15_Witness ==
    \E i \in DOMAIN notifs :
       /\ last.op = "process" /\ last.id = i /\ last.called
       /\ notifs[i].type = "email" /\ "email" \in notifs[i].data
       /\ notifs[i].scheduledAt = NoTime
       /\ notifs[i].status = "SENT"
       /\ notifs[i].sentAt = now
       /\ notifs[i].errorMessage = NoMsg
       /\ notifs[i].readAt = NoTime
       /\ JobCount(queue, i) = 0

\* C16: every job in the queue, whichever operation submitted it, carries 3
\* attempts, a backoff delay of 1000 ms, and the priority derived from its
\* record's priority (urgent 1, high 2, normal 3, low 4, absent 3).
C16_EveryJobCarriesPolicy ==
    \A j \in BagToSet(queue) :
       /\ j.attempts = 3
       /\ j.backoff = 1000
       /\ j.priority = CASE notifs[j.id].priority = "urgent" -> 1
                         [] notifs[j.id].priority = "high" -> 2
                         [] notifs[j.id].priority = "normal" -> 3
                         [] notifs[j.id].priority = "low" -> 4
                         [] OTHER -> 3

\* C17 as claimed: the status of a FAILED record is changed only by
\* retryNotification, to QUEUED.
C17_FailedIsTerminal ==
    [][\A i \in DOMAIN notifs :
          (notifs[i].status = "FAILED" /\ notifs'[i].status # "FAILED") =>
             (last'.op = "retry" /\ last'.id = i /\ notifs'[i].status = "QUEUED")
      ]_vars

\* C17 as amended: the status of a FAILED record is changed only by
\* retryNotification (to QUEUED), by markAsRead or markAllAsRead of its user
\* (to READ), or by a process call for a job of the record that is still in
\* the queue (to SENT or DELIVERED); the sweep never changes it.
C17_FailedLeftOnlyBy ==
    [][\A i \in DOMAIN notifs :
          (notifs[i].status = "FAILED" /\ notifs'[i].status # "FAILED") =>
             \/ last'.op = "retry" /\ last'.id = i /\ notifs'[i].status = "QUEUED"
             \/ /\ last'.op \in {"markAsRead", "markAllAsRead"}
                /\ last'.user = notifs[i].userId
                /\ notifs'[i].status = "READ"
             \/ /\ last'.op = "process" /\ last'.id = i
                /\ JobCount(queue, i) > 0
                /\ notifs'[i].status \in {"SENT", "DELIVERED"}
      ]_vars

\* C17 witness: a push record that was FAILED by a raised attempt has been
\* processed again, by the queue's redelivery, and is SENT
C17_Witness ==
    \E i \in DOMAIN notifs :
       /\ last.op = "process" /\ last.id = i /\ last.called
       /\ notifs[i].status = "SENT"
       /\ notifs[i].errorMessage = "device lookup error"
       /\ notifs[i].retryCount = 1
       /\ notifs[i].readAt = NoTime

\* C18: each of sentAt, readAt and deliveredAt is set at most once: once a
\* record holds a value for one of them, no step changes that value.
C18_TimestampsSetOnce ==
    [][\A i \in DOMAIN notifs :
          /\ notifs[i].sentAt # NoTime => notifs'[i].sentAt = notifs[i].sentAt
          /\ notifs[i].readAt # NoTime => notifs'[i].readAt = notifs[i].readAt
          /\ notifs[i].deliveredAt # NoTime =>
                notifs'[i].deliveredAt = notifs[i].deliveredAt
      ]_vars

\* C19 as claimed: every process call that leaves the record FAILED raises
\* its retryCount by one.
C19_CountsEveryFailure ==
    [][\A i \in DOMAIN notifs :
          (last'.op = "process" /\ last'.id = i /\ notifs'[i].status = "FAILED") =>
             notifs'[i].retryCount = notifs[i].retryCount + 1
      ]_vars

\* C19 as amended: a process call raises the record's retryCount by one when
\* it raises to the queue and leaves it unchanged when it returns normally,
\* whatever status it leaves; no other operation changes retryCount.
C19_CountsRaisesOnly ==
    [][\A i \in DOMAIN notifs :
          notifs'[i].retryCount =
             IF last'.op = "process" /\ last'.id = i /\ last'.ret = "raise"
             THEN notifs[i].retryCount + 1
             ELSE notifs[i].retryCount
      ]_vars

\* C19 witness: a push record whose first attempt raised has been processed
\* again, the provider reported a failure, and the record is FAILED with the
\* one raise counted
C19_Witness ==
    \E i \in DOMAIN notifs :
       /\ last.op = "process" /\ last.id = i /\ last.ret = "void" /\ last.called
       /\ notifs[i].status = "FAILED"
       /\ notifs[i].errorMessage = "Firebase not initialized"
       /\ notifs[i].retryCount = 1

\* C20: process has no claim or lock step. A worker that is free can take any
\* job no other worker holds, whatever the record's status and whatever job
\* of the same record another worker is processing; and the save that ends a
\* worker's call writes the record of that worker's memory over whatever the
\* store holds, leaving the other records alone.
C20_NoClaimLastWriterWins ==
    /\ [](\A w \in Workers : \A j \in BagToSet(queue) :
            (workers[w].pc = "idle" /\ Holders(j) = {}) => ENABLED WLoad(w, j))
    /\ [][\A w \in Workers :
            (workers[w].pc = "save" /\ workers'[w].pc = "idle") =>
               notifs' = [notifs EXCEPT ![workers[w].job[1].id] = workers[w].m[1]]
       ]_vars

\* C20 witness: two workers took two jobs of one record before either had
\* saved, both called the push provider, one wrote SENT and the other FAILED,
\* and the store holds the FAILED record of the one that saved last
C20_Witness ==
    \E i \in DOMAIN notifs :
       /\ \A w \in Workers :
             /\ workers[w].pc = "idle"
             /\ workers[w].job # <<>> /\ workers[w].job[1].id = i
             /\ workers[w].snap[1].status = "QUEUED"
             /\ workers[w].snap[1].sentAt = NoTime
             /\ workers[w].called
       /\ workers["a"].job # workers["b"].job
       /\ workers["a"].m[1].status = "SENT"
       /\ workers["b"].m[1].status = "FAILED"
       /\ notifs[i] = workers["b"].m[1]
       /\ last.op = "process" /\ last.id = i


\* C21: the sweep reads and writes in separate steps with nothing to claim a
\* record in between. A scheduler that is not inside the sweep can find every
\* due PENDING record, whichever records another scheduler holds and has not
\* saved yet; each scheduler saves the record it found, with the status the
\* sweep gives it, over whatever the store holds by then, and submits a job
\* for every record it saved QUEUED. So two interleaved sweeps can submit the
\* same scheduled record twice (the witness).
C21_SweepNotAtomic ==
    /\ [](\A s \in Sweepers : \A b \in Batches(now) :
            sweepers[s].pc = "rest" => ENABLED SFind(s, b))
    /\ [][\A s \in Sweepers : \A i \in DOMAIN notifs :
            SSave(s, i) =>
               LET rec == SweepRecord(sweepers[s].snap[i], sweepers[s].t)
               IN /\ notifs'[i] = rec
                  /\ rec.status = "QUEUED" =>
                        (sweepers'[s].pc = "add" /\ sweepers'[s].cur = i)
       ]_vars
    /\ [][\A s \in Sweepers :
            (sweepers[s].pc = "add" /\ sweepers'[s].pc # "add") =>
               LET i == sweepers[s].cur
               IN /\ JobCount(queue', i) = JobCount(queue, i) + 1
                  /\ hist'[i].swept = hist[i].swept + 1
       ]_vars

\* C21 witness: both schedulers found the same due record while it was
\* PENDING, and each has saved it QUEUED and submitted a job for it: the
\* queue holds two jobs for the one scheduled record
C21_Witness ==
    \E i \in DOMAIN notifs :
       /\ notifs[i].scheduledAt # NoTime
       /\ notifs[i].status = "QUEUED"
       /\ hist[i].swept = 2 /\ hist[i].jobs = 2 /\ hist[i].retried = 0
       /\ JobCount(queue, i) = 2
       /\ \A s \in Sweepers : sweepers[s].pc = "rest"
       /\ last.op = "sweepAdd" /\ last.id = i


\* C22: a sweep changes the records of its batch and no others, a batch
\* being all the due PENDING records when there are at most SWEEP_BATCH (100)
\* and exactly SWEEP_BATCH of them otherwise; every record of the batch leaves
\* PENDING, to QUEUED with one job submitted or, when expired, to FAILED with
\* none. No record returns to PENDING, and with the sweep run again and again
\* every record that is PENDING and due eventually leaves PENDING, also when
\* more than SWEEP_BATCH are due at once: from some point on no due record is
\* PENDING.
C22_BacklogDrains ==
    /\ [][last'.op = "sweep" =>
            LET changed == {i \in DOMAIN notifs : notifs'[i] # notifs[i]}
                due == Cardinality(Due(now))
            IN /\ changed \subseteq Due(now)
               /\ Cardinality(changed) = IF due <= 100 THEN due ELSE 100
               /\ \A i \in changed :
                     \/ /\ notifs'[i].status = "QUEUED"
                        /\ ~Expired(notifs[i], now)
                        /\ JobCount(queue', i) = JobCount(queue, i) + 1
                     \/ /\ notifs'[i].status = "FAILED"
                        /\ Expired(notifs[i], now)
                        /\ JobCount(queue', i) = JobCount(queue, i)
       ]_vars
    /\ [][\A i \in DOMAIN notifs :
            notifs[i].status # "PENDING" => notifs'[i].status # "PENDING"]_vars
    /\ <>[](\A i \in DOMAIN notifs :
              notifs[i].scheduledAt # NoTime /\ notifs[i].scheduledAt <= now
                 => notifs[i].status # "PENDING")

\* C22 witness: a first sweep took SWEEP_BATCH of the due records and left
\* one PENDING, and a second sweep has taken that one: no record is PENDING
C22_Witness ==
    /\ last.op = "sweep" /\ last.n = 1
    /\ Len(notifs) > SWEEP_BATCH
    /\ \A i \in DOMAIN notifs : notifs[i].status # "PENDING"
    /\ hist[1].swept = 1
    /\ Cardinality({i \in DOMAIN notifs : notifs[i].status = "FAILED"}) = SWEEP_BATCH


\* C23: a record that is QUEUED has a job waiting in the queue, and with the
\* queue's workers taking every job that waits, every record that is QUEUED
\* with a job submitted for it eventually has another status (SENT,
\* DELIVERED, FAILED or READ), also when every attempt of its job raises and
\* the job's 3 attempts are used up.
C23_EveryJobResolves ==
    /\ [](\A i \in DOMAIN notifs :
            notifs[i].status = "QUEUED" => JobCount(queue, i) > 0)
    /\ \A i \in 1..CCMaxNotifs :
          (i \in DOMAIN notifs /\ notifs[i].status = "QUEUED" /\ hist[i].jobs > 0)
             ~> (i \in DOMAIN notifs
                   /\ notifs[i].status \in {"SENT", "DELIVERED", "FAILED", "READ"})

\* C23 witness: the three attempts of the job that send submitted have all
\* raised; the job is gone and the record is FAILED with three raises counted
C23_Witness ==
    \E i \in DOMAIN notifs :
       /\ last.op = "process" /\ last.id = i /\ last.ret = "raise"
       /\ hist[i].jobs = 1
       /\ JobCount(queue, i) = 0
       /\ notifs[i].status = "FAILED"
       /\ notifs[i].retryCount = JOB_ATTEMPTS


\* C24 as claimed: a sendBulk call persists at most one record per user (one
\* for a user that survives, none for a user that is rejected), each QUEUED
\* with exactly one job, and returns the number of records it persisted,
\* which is the number of jobs it submitted.
C24_OneRecordPerUser ==
    [][last'.op = "sendBulk" =>
          LET new == (Len(notifs) + 1)..Len(notifs')
          IN /\ \A u \in Users :
                   Cardinality({i \in new : notifs'[i].userId = u}) <= 1
             /\ \A i \in new :
                   notifs'[i].status = "QUEUED" /\ JobCount(queue', i) = 1
             /\ last'.n = Cardinality(new)
             /\ QueueLen' = QueueLen + Cardinality(new)
      ]_vars

\* C24 as amended: sendBulk treats each entry of userIds on its own. An entry
\* survives when the preference gate admits it and its user's rate window,
\* counting the earlier entries of the same user in the list, is not full;
\* the entries of other users have no part in it. The call appends one record
\* per surviving entry, in list order, for that entry's user, QUEUED and never
\* scheduled, with exactly one job, leaves the records it found alone, and
\* returns the number of surviving entries, which is the number of records
\* persisted and of jobs submitted. A user listed more than once can get more
\* than one record.
C24_OneRecordPerEntry ==
    [][\A dto \in BKRequests : \A prefs \in [1..Len(dto.userIds) -> BOOLEAN] :
          (last'.op = "sendBulk" /\ SendBulk(dto, prefs, BKMaxNotifs, BKCalls)) =>
             LET us == dto.userIds
                 earlier(i) == Cardinality({k \in 1..(i - 1) : us[k] = us[i]})
                 fresh(u) == rl[u] = NoLimit \/ rl[u].resetAt < now
                 survives(i) ==
                    /\ prefs[i]
                    /\ fresh(us[i]) \/ rl[us[i]].count + earlier(i) < RATE_LIMIT_MAX
                 surv == {i \in 1..Len(us) : survives(i)}
                 rank(i) == Cardinality({k \in surv : k <= i})
             IN /\ Len(notifs') = Len(notifs) + Cardinality(surv)
                /\ \A i \in DOMAIN notifs : notifs'[i] = notifs[i]
                /\ \A i \in surv :
                      LET id == Len(notifs) + rank(i)
                      IN /\ notifs'[id].userId = us[i]
                         /\ notifs'[id].status = "QUEUED"
                         /\ notifs'[id].scheduledAt = NoTime
                         /\ JobCount(queue', id) = 1
                /\ last'.n = Cardinality(surv)
                /\ QueueLen' = QueueLen + Cardinality(surv)
      ]_vars

\* C24 witness: with u1's rate window full, a sendBulk has persisted one
\* record, for u2, QUEUED with one job, and returned 1; nothing was persisted
\* or queued for u1
C24_Witness ==
    /\ last.op = "sendBulk" /\ last.n = 1
    /\ rl["u1"].count = RATE_LIMIT_MAX
    /\ rl["u2"].count = 1
    /\ Len(notifs) = 1
    /\ notifs[1].userId = "u2"
    /\ notifs[1].status = "QUEUED"
    /\ queue = SetToBag({JobBare(1)})


\* C25 as claimed: in every interval of 60 seconds at most RATE_LIMIT_MAX
\* (100) calls of a user are admitted; so in the observed interval.
C25_SlidingWindow ==
    \A u \in Users : observed[u] <= RATE_LIMIT_MAX

\* C25 as amended: the limiter counts in fixed windows. A window is opened by
\* the first call of the user, or by the first call after the resetAt of the
\* user's window has passed, and it runs until its resetAt, 60 seconds later,
\* that instant included; within a window at most RATE_LIMIT_MAX calls are
\* admitted, the opening one counted. The calls at the end of one window and
\* at the start of the next add up: an interval of 60 seconds can hold up to
\* 2 * RATE_LIMIT_MAX - 1 admitted calls, and no more.
C25_FixedWindow ==
    /\ [](\A u \in Users :
            /\ rl[u].count <= RATE_LIMIT_MAX
            /\ observed[u] <= 2 * RATE_LIMIT_MAX - 1)
    /\ [][\A u \in Users :
            (last'.op = "send" /\ last'.user = u) =>
               IF rl[u] = NoLimit \/ now > rl[u].resetAt
               THEN /\ rl'[u] = [count |-> 1, resetAt |-> now + RATE_LIMIT_WINDOW]
                    /\ last'.ret # "null_rate_limited"
               ELSE IF rl[u].count < RATE_LIMIT_MAX
               THEN /\ rl'[u] = [rl[u] EXCEPT !.count = @ + 1]
                    /\ last'.ret # "null_rate_limited"
               ELSE /\ rl'[u] = rl[u]
                    /\ last'.ret = "null_rate_limited"
       ]_vars

\* C25 witness: 99 calls were admitted at the last instant of one window and
\* 100 more one millisecond later, in the next window
C25_Witness ==
    /\ observed["u1"] = 2 * RATE_LIMIT_MAX - 1
    /\ now = ObsFrom + 1
    /\ rl["u1"] = [count |-> RATE_LIMIT_MAX, resetAt |-> now + RATE_LIMIT_WINDOW]
    /\ last.op = "send" /\ last.user = "u1"


\* C26: errorMessage never goes stale on success. A DELIVERED record has an
\* empty errorMessage; a process call that leaves the record DELIVERED, or
\* SENT with every destination delivered, leaves its errorMessage empty,
\* whatever it held before; and a process call that leaves it SENT after a
\* partial push delivery leaves the message of that partial delivery.
C26_NoStaleError ==
    /\ [](\A i \in DOMAIN notifs :
            notifs[i].status = "DELIVERED" => notifs[i].errorMessage = NoMsg)
    /\ [][\A j \in BagToSet(queue) : \A out \in Outcomes(notifs[j.id]) :
            Process(j, out) =>
               LET r == notifs'[j.id]
                   partial == notifs[j.id].type = "push" /\ 0 < out.s /\ out.s < out.n
               IN /\ r.status = "DELIVERED" => r.errorMessage = NoMsg
                  /\ r.status = "SENT" =>
                        r.errorMessage = IF partial THEN PartialMsg(out.n - out.s)
                                         ELSE NoMsg
       ]_vars


\* C27: with every process call run to completion before the next one starts,
\* a record that a channel provider was called for and that is SENT,
\* DELIVERED or READ is not handed to a channel provider again by any later
\* process call.
C27_NoSecondSend ==
    [][\A i \in DOMAIN notifs :
          (/\ i \in contacted
           /\ notifs[i].status \in {"SENT", "DELIVERED", "READ"}
           /\ last'.op = "process" /\ last'.id = i)
             => ~last'.called
      ]_vars


\* C28: with the sweep run to completion before the next one starts, the
\* sweep submits each scheduled record at most once and an unscheduled record
\* never; the jobs ever submitted for a record are at most one more than the
\* retryNotification calls that returned true for it (for a scheduled record:
\* those of the sweep and those of the retries); no record returns to
\* PENDING, and the sweep submits no job for a record that is not PENDING, so
\* a record the sweep failed as expired, for which it then has submitted no
\* job, is not submitted by any later sweep.
C28_SweepSubmitsOnce ==
    /\ [](\A i \in DOMAIN notifs :
            /\ hist[i].swept <= 1
            /\ hist[i].jobs <= 1 + hist[i].retried
            /\ notifs[i].scheduledAt # NoTime =>
                  hist[i].jobs = hist[i].swept + hist[i].retried
            /\ notifs[i].scheduledAt = NoTime => hist[i].swept = 0
            /\ notifs[i].errorMessage = "Notification expired before delivery" =>
                  hist[i].swept = 0)
    /\ [][\A i \in DOMAIN notifs :
            /\ notifs[i].status # "PENDING" =>
                  (notifs'[i].status # "PENDING" /\ hist'[i].swept = hist[i].swept)
            /\ hist'[i].swept # hist[i].swept =>
                  /\ last'.op = "sweep"
                  /\ notifs[i].status = "PENDING" /\ notifs'[i].status = "QUEUED"
                  /\ JobCount(queue', i) = JobCount(queue, i) + 1
            /\ (last'.op = "sweep" /\ notifs[i].status = "PENDING"
                  /\ notifs'[i].status = "FAILED") =>
                  (hist'[i].swept = 0 /\ JobCount(queue', i) = JobCount(queue, i))
       ]_vars

\* C28 witness: a scheduled record was submitted by the sweep, failed, was
\* retried, and a later sweep has run without submitting it again: two jobs
\* in all, one of the sweep and one of the retry
C28_Witness ==
    \E i \in DOMAIN notifs :
       /\ notifs[i].scheduledAt # NoTime /\ notifs[i].scheduledAt <= now
       /\ hist[i] = [jobs |-> 2, swept |-> 1, retried |-> 1]
       /\ last.op = "sweep" /\ last.n = 0
       /\ sweptAt = now
       /\ notifs[i].status = "QUEUED"

====
